---- MODULE Spec2Model ----
(***************************************************************************)
(* DenseStorage: the storage of a dense matrix (element buffer + extents). *)
(*                                                                         *)
(* Two designs of the same component are modelled side by side:            *)
(*   "Indices" : src/unnamed/part_000, extents held by DenseStorageIndices *)
(*   "RowCol"  : src/Eigen/src/Core/DenseStorage.h, extents held by        *)
(*               DenseStorageRowIndex + DenseStorageColIndex               *)
(* The state is a small set of storage instances of one instantiation     *)
(* DenseStorage<T, SizeT, RowsT, ColsT> (runtime capacity, fixed capacity  *)
(* or zero capacity), the heap of the aligned-allocation capability, and a *)
(* record of the last operation.                                           *)
(***************************************************************************)
EXTENDS Integers, Sequences, FiniteSets, TLC

(* ------------------------------ bounds --------------------------------- *)
\* number of buffers the allocation capability can hand out in one run
MaxAlloc == 3
\* largest element count, and largest runtime extent, a caller asks for
MaxSize == 2
\* the compile-time constant of a fixed extent in the mixed instantiations
FixedExt == 1
\* the compile-time Size of the fixed-capacity instantiations
FixedSize == 2

(* ----------------------------- constants ------------------------------- *)
\* Eigen's marker of a runtime-determined extent or size
Dynamic == -1

Inst == {1, 2}
Null == 0
Ptr == 1..MaxAlloc
\* element values: the code copies elements and never inspects them, so two
\* distinct values tell every position apart
Val == {0, 1}

VARIABLES
  design,       \* "Indices" or "RowCol": which source file the instances come from
  RowsT,        \* template argument Rows: Dynamic or a constant
  ColsT,        \* template argument Cols: Dynamic or a constant
  SizeT,        \* template argument Size: Dynamic, 0 or a positive constant
  m_array,      \* m_array[i]: the in-place plain_array of object i (fixed capacity)
  inst,         \* inst[i]: [live, m_data, m_rows, m_cols] of storage object i
  heap,         \* heap[p]: [st, elems] of buffer p of the allocation capability
  lastSet,      \* lastSet[i]: the (rows, cols) most recently passed to a set of holder i
  doubleFree,   \* a buffer that is not allocated was released or reallocated
  allocFailed,  \* an allocation has failed and propagated to the caller
  last          \* the last operation: its name and the calls it made to the capability

vars == <<design, RowsT, ColsT, SizeT, m_array, inst, heap, lastSet, doubleFree, allocFailed, last>>

(* ------------------- the aligned-allocation capability ----------------- *)
Seqs(n) == [1..n -> Val]

Min(a, b) == IF a < b THEN a ELSE b

UnusedCell == [st |-> "unused", elems |-> <<>>]
FreedCell == [st |-> "freed", elems |-> <<>>]

HasFresh(h) == \E p \in Ptr : h[p].st = "unused"
FreshPtr(h) == CHOOSE p \in Ptr : h[p].st = "unused" /\ \A q \in Ptr : h[q].st = "unused" => p <= q

\* number of elements allocated for the buffer behind p (a null buffer: 0)
Allocated(h, p) == IF p # Null /\ h[p].st = "live" THEN Len(h[p].elems) ELSE 0

\* allocate(count): null for count 0, else a fresh uninitialised buffer or a failure
conditional_aligned_new_auto(h, n) ==
  IF n = 0 THEN {[ok |-> TRUE, ptr |-> Null, heap |-> h, bad |-> FALSE]}
  ELSE {[ok |-> FALSE, ptr |-> Null, heap |-> h, bad |-> FALSE]} \cup
       (IF HasFresh(h)
        THEN {[ok |-> TRUE, ptr |-> FreshPtr(h), bad |-> FALSE,
               heap |-> [h EXCEPT ![FreshPtr(h)] = [st |-> "live", elems |-> e]]] : e \in Seqs(n)}
        ELSE {})

\* free(buffer, count): nothing for null; releasing what is not allocated is an error
conditional_aligned_delete_auto(h, p, n) ==
  IF p = Null THEN [heap |-> h, bad |-> FALSE]
  ELSE IF h[p].st = "live" THEN [heap |-> [h EXCEPT ![p] = FreedCell], bad |-> FALSE]
  ELSE [heap |-> h, bad |-> TRUE]

\* the contents a reallocation to n elements may have: the common prefix is kept
Preserved(old, oldCount, n) ==
  {e \in Seqs(n) : \A k \in 1..Min(n, Min(oldCount, Len(old))) : e[k] = old[k]}

\* reallocate(buffer, newCount, oldCount): content-preserving up to min(old,new)
conditional_aligned_realloc_new_auto(h, p, n, old) ==
  IF p = Null THEN conditional_aligned_new_auto(h, n)
  ELSE IF h[p].st # "live" THEN {[ok |-> TRUE, ptr |-> p, heap |-> h, bad |-> TRUE]}
  ELSE IF n = old THEN {[ok |-> TRUE, ptr |-> p, heap |-> h, bad |-> FALSE]}
  ELSE IF n = 0 THEN {[ok |-> TRUE, ptr |-> Null, heap |-> [h EXCEPT ![p] = FreedCell], bad |-> FALSE]}
  ELSE {[ok |-> FALSE, ptr |-> p, heap |-> h, bad |-> FALSE]} \cup
       {[ok |-> TRUE, ptr |-> p, bad |-> FALSE,
         heap |-> [h EXCEPT ![p] = [st |-> "live", elems |-> e]]] : e \in Preserved(h[p].elems, old, n)} \cup
       (IF HasFresh(h)
        THEN {[ok |-> TRUE, ptr |-> FreshPtr(h), bad |-> FALSE,
               heap |-> [h EXCEPT ![FreshPtr(h)] = [st |-> "live", elems |-> e], ![p] = FreedCell]] :
                 e \in Preserved(h[p].elems, old, n)}
        ELSE {})

\* what reading n elements through p yields: the stored values where the buffer
\* is allocated and long enough, any value elsewhere
ReadElems(h, p, n) ==
  {e \in Seqs(n) : \A k \in 1..n : (p # Null /\ h[p].st = "live" /\ k <= Len(h[p].elems)) => e[k] = h[p].elems[k]}

\* smart_copy(src, src + n, dst): the heaps that can result
smart_copy(h, src, n, dst) ==
  IF n = 0 \/ dst = Null \/ h[dst].st # "live" THEN {h}
  ELSE {[h EXCEPT ![dst].elems = [k \in 1..Len(@) |-> IF k <= n THEN e[k] ELSE @[k]]] : e \in ReadElems(h, src, n)}

\* records of the calls an operation makes to the capability
\* (the counts passed; the buffers are those the object holds before and after)
CallNew(n) == [fn |-> "new", n |-> n, old |-> 0]
CallDelete(n) == [fn |-> "delete", n |-> n, old |-> 0]
CallRealloc(n, old) == [fn |-> "realloc", n |-> n, old |-> old]

(* --------------------------- extent holders ---------------------------- *)
\* DenseStorageIndices<Rows, Cols> (part_000): the four specialisations
IdxRows(s) == IF RowsT = Dynamic THEN s.m_rows ELSE RowsT
IdxCols(s) == IF ColsT = Dynamic THEN s.m_cols ELSE ColsT
IdxSet(s, r, c) ==
  [s EXCEPT !.m_rows = IF RowsT = Dynamic THEN r ELSE @,
            !.m_cols = IF ColsT = Dynamic THEN c ELSE @]

\* setRows that writes the column extent as well
setRowsAndCols(s, r) ==
  [s EXCEPT !.m_rows = IF RowsT = Dynamic THEN r ELSE @,
            !.m_cols = IF ColsT = Dynamic THEN r ELSE @]

\* DenseStorageRowIndex<Rows>, DenseStorageColIndex<Cols> (DenseStorage.h)
getRows(s) == IF RowsT = Dynamic THEN s.m_rows ELSE RowsT
getCols(s) == IF ColsT = Dynamic THEN s.m_cols ELSE ColsT
setRows(s, r) == [s EXCEPT !.m_rows = IF RowsT = Dynamic THEN r ELSE @]
setCols(s, c) == [s EXCEPT !.m_cols = IF ColsT = Dynamic THEN c ELSE @]

\* rows(), cols() of a storage object of the design under check
rows(s) == IF design = "Indices" THEN IdxRows(s) ELSE getRows(s)
cols(s) == IF design = "Indices" THEN IdxCols(s) ELSE getCols(s)

\* a slot that holds no object
Dead == [live |-> FALSE, m_data |-> Null, m_rows |-> 0, m_cols |-> 0]
\* a default-constructed object: null buffer, runtime extents 0
Fresh == [live |-> TRUE, m_data |-> Null, m_rows |-> 0, m_cols |-> 0]

\* the (size, rows, cols) triples a caller may pass: size == rows*cols,
\* rows, cols >= 0, and a fixed extent is passed as its constant
RowArgs == IF RowsT = Dynamic THEN 0..MaxSize ELSE {RowsT}
ColArgs == IF ColsT = Dynamic THEN 0..MaxSize ELSE {ColsT}
Shapes == {rc \in RowArgs \X ColArgs : rc[1] * rc[2] <= MaxSize}

NoOp == [op |-> "init", same |-> FALSE, ok |-> TRUE, calls |-> <<>>]

\* the <Rows, Cols> a runtime-capacity storage is instantiated with: the capacity
\* is runtime-determined only when at least one extent is
Instantiations == {<<Dynamic, Dynamic>>, <<FixedExt, Dynamic>>, <<Dynamic, FixedExt>>}

Init ==
  /\ design \in {"Indices", "RowCol"}
  /\ \E t \in Instantiations : RowsT = t[1] /\ ColsT = t[2]
  /\ SizeT = Dynamic
  /\ m_array = [i \in Inst |-> <<>>]
  /\ inst = [i \in Inst |-> Dead]
  /\ heap = [p \in Ptr |-> UnusedCell]
  /\ lastSet = [i \in Inst |-> [rows |-> 0, cols |-> 0]]
  /\ doubleFree = FALSE
  /\ allocFailed = FALSE
  /\ last = NoOp

\* The contents of a buffer that no object holds can never be read or written
\* again: they are kept as zeros, so that leaked buffers differ only in length.
Settle(h, I) ==
  [p \in Ptr |-> IF h[p].st = "live" /\ \A i \in Inst : I[i].m_data # p
                 THEN [st |-> "live", elems |-> [k \in 1..Len(h[p].elems) |-> 0]]
                 ELSE h[p]]

\* an operation named op ends in outcome o = [inst, heap, calls, ok, bad];
\* same: its two operands are one object
Commit(op, same, o) ==
  /\ inst' = o.inst
  /\ heap' = Settle(o.heap, o.inst)
  /\ doubleFree' = o.bad
  /\ allocFailed' = (allocFailed \/ ~o.ok)
  /\ last' = [op |-> op, same |-> same, ok |-> o.ok, calls |-> o.calls]
  /\ UNCHANGED <<design, RowsT, ColsT, SizeT, m_array, lastSet>>

Out(I, h, calls, ok, bad) == [inst |-> I, heap |-> h, calls |-> calls, ok |-> ok, bad |-> bad]


(* ---------- DenseStorage<T, Dynamic, Rows, Cols> of part_000 ----------- *)
\* Each operation maps the objects I, the heap h and its arguments to the set
\* of outcomes it can have. Objects are named by their slot, so that an
\* operation whose two operands are one object sees its own writes.

\* DenseStorage() : m_data(nullptr)
ctorDefault(I, h, i) == {Out([I EXCEPT ![i] = Fresh], h, <<>>, TRUE, FALSE)}

\* DenseStorage(Index size, Index rows, Index cols)
ctorSized(I, h, i, size, r, c) ==
  {IF o.ok
   THEN Out([I EXCEPT ![i] = [IdxSet(Fresh, r, c) EXCEPT !.m_data = o.ptr]], o.heap,
            <<CallNew(size)>>, TRUE, FALSE)
   ELSE Out(I, h, <<CallNew(size)>>, FALSE, FALSE)
   : o \in conditional_aligned_new_auto(h, size)}

\* a copy constructor that copies the pointer instead of the elements
ctorCopyShallow(I, h, i, j) ==
  {Out([I EXCEPT ![i] = [I[j] EXCEPT !.live = TRUE]], h, <<>>, TRUE, FALSE)}

\* DenseStorage(const DenseStorage& other)
ctorCopy(I, h, i, j) ==
  LET size == IdxRows(I[j]) * IdxCols(I[j])
      base == [Fresh EXCEPT !.m_rows = I[j].m_rows, !.m_cols = I[j].m_cols]
  IN UNION {IF o.ok
            THEN {Out([I EXCEPT ![i] = [base EXCEPT !.m_data = o.ptr]], h2,
                      <<CallNew(size)>>, TRUE, FALSE)
                  : h2 \in smart_copy(o.heap, I[j].m_data, size, o.ptr)}
            ELSE {Out(I, h, <<CallNew(size)>>, FALSE, FALSE)}
            : o \in conditional_aligned_new_auto(h, size)}

\* a move constructor that leaves the source as it was
ctorMoveKeepsSource(I, h, i, j) ==
  {Out([I EXCEPT ![i] = [I[j] EXCEPT !.live = TRUE]], h, <<>>, TRUE, FALSE)}

\* DenseStorage(DenseStorage&& other) noexcept
ctorMove(I, h, i, j) ==
  LET self == [Fresh EXCEPT !.m_rows = I[j].m_rows, !.m_cols = I[j].m_cols, !.m_data = I[j].m_data]
      other == [IdxSet(I[j], 0, 0) EXCEPT !.m_data = Null]
  IN {Out([I EXCEPT ![i] = self, ![j] = other], h, <<>>, TRUE, FALSE)}

\* a copy assignment that copies the pointer instead of the elements
assignCopyShallow(I, h, i, j) ==
  {Out([I EXCEPT ![i] = [I[j] EXCEPT !.live = TRUE]], h, <<>>, TRUE, FALSE)}

\* copy assignment that releases the buffer it holds before it allocates
assignCopyReleasesFirst(I, h, i, j) ==
  LET d == conditional_aligned_delete_auto(h, I[i].m_data, IdxRows(I[i]) * IdxCols(I[i]))
      I1 == [I EXCEPT ![i] = IdxSet(I[i], IdxRows(I[j]), IdxCols(I[j]))]
      size == IdxRows(I1[j]) * IdxCols(I1[j])
  IN UNION {IF o.ok
            THEN LET I2 == [I1 EXCEPT ![i].m_data = o.ptr]
                 IN {Out(I2, h2, <<CallNew(size)>>, TRUE, d.bad)
                     : h2 \in smart_copy(o.heap, I2[j].m_data, size, I2[i].m_data)}
            ELSE {Out(I1, d.heap, <<CallNew(size)>>, FALSE, d.bad)}
            : o \in conditional_aligned_new_auto(d.heap, size)}

\* DenseStorage& operator=(const DenseStorage& other)
assignCopy(I, h, i, j) ==
  LET I1 == [I EXCEPT ![i] = IdxSet(I[i], IdxRows(I[j]), IdxCols(I[j]))]
      size == IdxRows(I1[j]) * IdxCols(I1[j])
  IN UNION {IF o.ok
            THEN LET I2 == [I1 EXCEPT ![i].m_data = o.ptr]
                 IN {Out(I2, h2, <<CallNew(size)>>, TRUE, FALSE)
                     : h2 \in smart_copy(o.heap, I2[j].m_data, size, I2[i].m_data)}
            ELSE {Out(I1, h, <<CallNew(size)>>, FALSE, FALSE)}
            : o \in conditional_aligned_new_auto(h, size)}

\* swap that gives this object the other's members and leaves the other as it was
swapOneWay(I, h, i, j) ==
  {Out([I EXCEPT ![i] = IdxSet([@ EXCEPT !.m_data = I[j].m_data], I[j].m_rows, I[j].m_cols)],
       h, <<>>, TRUE, FALSE)}

\* void swap(DenseStorage& other) noexcept
swap(I, h, i, j) ==
  LET I1 == [I EXCEPT ![i].m_data = I[j].m_data, ![j].m_data = I[i].m_data]
      I2 == [I1 EXCEPT ![i].m_rows = IF RowsT = Dynamic THEN I1[j].m_rows ELSE @,
                       ![j].m_rows = IF RowsT = Dynamic THEN I1[i].m_rows ELSE @,
                       ![i].m_cols = IF ColsT = Dynamic THEN I1[j].m_cols ELSE @,
                       ![j].m_cols = IF ColsT = Dynamic THEN I1[i].m_cols ELSE @]
  IN {Out(I2, h, <<>>, TRUE, FALSE)}

\* DenseStorage& operator=(DenseStorage&& other) noexcept
assignMove(I, h, i, j) == swap(I, h, i, j)

\* ~DenseStorage()
dtor(I, h, i) ==
  LET size == IdxRows(I[i]) * IdxCols(I[i])
      d == conditional_aligned_delete_auto(h, I[i].m_data, size)
  IN {Out([I EXCEPT ![i] = Dead], d.heap, <<CallDelete(size)>>, TRUE, d.bad)}

\* conservativeResize that releases the buffer and allocates another one
conservativeResizeThroughNew(I, h, i, size, r, c) ==
  LET oldSize == IdxRows(I[i]) * IdxCols(I[i])
      d == conditional_aligned_delete_auto(h, I[i].m_data, oldSize)
      calls == <<CallDelete(oldSize), CallNew(size)>>
  IN {IF o.ok
      THEN Out([I EXCEPT ![i] = IdxSet([@ EXCEPT !.m_data = o.ptr], r, c)], o.heap, calls, TRUE, d.bad)
      ELSE Out(I, d.heap, calls, FALSE, d.bad)
      : o \in conditional_aligned_new_auto(d.heap, size)}

\* void conservativeResize(Index size, Index rows, Index cols)
conservativeResize(I, h, i, size, r, c) ==
  LET oldSize == IdxRows(I[i]) * IdxCols(I[i])
  IN {IF o.bad THEN Out(I, h, <<CallRealloc(size, oldSize)>>, TRUE, TRUE)
      ELSE IF o.ok
      THEN Out([I EXCEPT ![i] = IdxSet([@ EXCEPT !.m_data = o.ptr], r, c)], o.heap,
               <<CallRealloc(size, oldSize)>>, TRUE, FALSE)
      ELSE Out(I, h, <<CallRealloc(size, oldSize)>>, FALSE, FALSE)
      : o \in conditional_aligned_realloc_new_auto(h, I[i].m_data, size, oldSize)}

\* resize that reallocates whenever the shape changes, not only the count
resizeOnShapeChange(I, h, i, size, r, c) ==
  LET oldSize == IdxRows(I[i]) * IdxCols(I[i])
      d == conditional_aligned_delete_auto(h, I[i].m_data, oldSize)
      del == CallDelete(oldSize)
  IN IF size # oldSize \/ r # IdxRows(I[i]) \/ c # IdxCols(I[i])
     THEN IF d.bad THEN {Out(I, h, <<del>>, TRUE, TRUE)}
          ELSE IF size > 0
          THEN {IF o.ok
                THEN Out([I EXCEPT ![i] = IdxSet([@ EXCEPT !.m_data = o.ptr], r, c)], o.heap,
                         <<del, CallNew(size)>>, TRUE, FALSE)
                ELSE Out(I, d.heap, <<del, CallNew(size)>>, FALSE, FALSE)
                : o \in conditional_aligned_new_auto(d.heap, size)}
          ELSE {Out([I EXCEPT ![i] = IdxSet([@ EXCEPT !.m_data = Null], r, c)], d.heap,
                    <<del>>, TRUE, FALSE)}
     ELSE {Out([I EXCEPT ![i] = IdxSet(@, r, c)], h, <<>>, TRUE, FALSE)}

\* resize that sets the extents and keeps the buffer whatever the new count
resizeKeepsBuffer(I, h, i, size, r, c) ==
  {Out([I EXCEPT ![i] = IdxSet(@, r, c)], h, <<>>, TRUE, FALSE)}

\* void resize(Index size, Index rows, Index cols)
resize(I, h, i, size, r, c) ==
  LET oldSize == IdxRows(I[i]) * IdxCols(I[i])
      d == conditional_aligned_delete_auto(h, I[i].m_data, oldSize)
      del == CallDelete(oldSize)
  IN IF size # oldSize
     THEN IF d.bad THEN {Out(I, h, <<del>>, TRUE, TRUE)}
          ELSE IF size > 0
          THEN {IF o.ok
                THEN Out([I EXCEPT ![i] = IdxSet([@ EXCEPT !.m_data = o.ptr], r, c)], o.heap,
                         <<del, CallNew(size)>>, TRUE, FALSE)
                ELSE Out(I, d.heap, <<del, CallNew(size)>>, FALSE, FALSE)
                : o \in conditional_aligned_new_auto(d.heap, size)}
          ELSE {Out([I EXCEPT ![i] = IdxSet([@ EXCEPT !.m_data = Null], r, c)], d.heap,
                    <<del>>, TRUE, FALSE)}
     ELSE {Out([I EXCEPT ![i] = IdxSet(@, r, c)], h, <<>>, TRUE, FALSE)}

(* ------- DenseStorage<T, Dynamic, Rows, Cols> of DenseStorage.h -------- *)
\* DenseStorage() : m_data(nullptr)
ctorDefaultRC(I, h, i) == {Out([I EXCEPT ![i] = Fresh], h, <<>>, TRUE, FALSE)}

\* DenseStorage(Index size, Index rows, Index cols)
ctorSizedRC(I, h, i, size, r, c) ==
  {IF o.ok
   THEN Out([I EXCEPT ![i] = setCols(setRows([Fresh EXCEPT !.m_data = o.ptr], r), c)], o.heap,
            <<CallNew(size)>>, TRUE, FALSE)
   ELSE Out(I, h, <<CallNew(size)>>, FALSE, FALSE)
   : o \in conditional_aligned_new_auto(h, size)}

\* DenseStorage(const DenseStorage&) = default: memberwise copy
ctorCopyRC(I, h, i, j) ==
  {Out([I EXCEPT ![i] = [I[j] EXCEPT !.live = TRUE]], h, <<>>, TRUE, FALSE)}

\* DenseStorage(DenseStorage&&) = default: memberwise move of a pointer and integers
ctorMoveRC(I, h, i, j) ==
  {Out([I EXCEPT ![i] = [I[j] EXCEPT !.live = TRUE]], h, <<>>, TRUE, FALSE)}

\* no destructor is declared: the implicit one releases nothing
dtorRC(I, h, i) == {Out([I EXCEPT ![i] = Dead], h, <<>>, TRUE, FALSE)}

\* a swap that exchanges the pointers and the row extents and leaves the
\* column extents in place
swapRCKeepsCols(I, h, i, j) ==
  LET I1 == [I EXCEPT ![i].m_data = I[j].m_data, ![j].m_data = I[i].m_data]
      I2 == [I1 EXCEPT ![i].m_rows = IF RowsT = Dynamic THEN I1[j].m_rows ELSE @,
                       ![j].m_rows = IF RowsT = Dynamic THEN I1[i].m_rows ELSE @]
  IN {Out(I2, h, <<>>, TRUE, FALSE)}

\* void swap(DenseStorage& other) noexcept
swapRC(I, h, i, j) ==
  LET I1 == [I EXCEPT ![i].m_data = I[j].m_data, ![j].m_data = I[i].m_data]
      I2 == [I1 EXCEPT ![i].m_rows = IF RowsT = Dynamic THEN I1[j].m_rows ELSE @,
                       ![j].m_rows = IF RowsT = Dynamic THEN I1[i].m_rows ELSE @]
      I3 == [I2 EXCEPT ![i].m_cols = IF ColsT = Dynamic THEN I2[j].m_cols ELSE @,
                       ![j].m_cols = IF ColsT = Dynamic THEN I2[i].m_cols ELSE @]
  IN {Out(I3, h, <<>>, TRUE, FALSE)}

\* conservativeResize that reads the old count after the extents are updated
conservativeResizeRCStaleCount(I, h, i, size, r, c) ==
  LET J == [I EXCEPT ![i] = setCols(setRows(@, r), c)]
      oldSize == getRows(J[i]) * getCols(J[i])
  IN {IF o.bad THEN Out(I, h, <<CallRealloc(size, oldSize)>>, TRUE, TRUE)
      ELSE IF o.ok
      THEN Out([J EXCEPT ![i].m_data = o.ptr], o.heap, <<CallRealloc(size, oldSize)>>, TRUE, FALSE)
      ELSE Out(I, h, <<CallRealloc(size, oldSize)>>, FALSE, FALSE)
      : o \in conditional_aligned_realloc_new_auto(h, J[i].m_data, size, oldSize)}

\* void conservativeResize(Index size, Index rows, Index cols)
conservativeResizeRC(I, h, i, size, r, c) ==
  LET oldSize == getRows(I[i]) * getCols(I[i])
  IN {IF o.bad THEN Out(I, h, <<CallRealloc(size, oldSize)>>, TRUE, TRUE)
      ELSE IF o.ok
      THEN Out([I EXCEPT ![i] = setCols(setRows([@ EXCEPT !.m_data = o.ptr], r), c)], o.heap,
               <<CallRealloc(size, oldSize)>>, TRUE, FALSE)
      ELSE Out(I, h, <<CallRealloc(size, oldSize)>>, FALSE, FALSE)
      : o \in conditional_aligned_realloc_new_auto(h, I[i].m_data, size, oldSize)}

\* resize that forgets to release the buffer it replaces
resizeRCLeaks(I, h, i, size, r, c) ==
  LET oldSize == getRows(I[i]) * getCols(I[i])
  IN IF size # oldSize
     THEN IF size > 0
          THEN {IF o.ok
                THEN Out([I EXCEPT ![i] = setCols(setRows([@ EXCEPT !.m_data = o.ptr], r), c)], o.heap,
                         <<CallNew(size)>>, TRUE, FALSE)
                ELSE Out(I, h, <<CallNew(size)>>, FALSE, FALSE)
                : o \in conditional_aligned_new_auto(h, size)}
          ELSE {Out([I EXCEPT ![i] = setCols(setRows([@ EXCEPT !.m_data = Null], r), c)], h,
                    <<>>, TRUE, FALSE)}
     ELSE {Out([I EXCEPT ![i] = setCols(setRows(@, r), c)], h, <<>>, TRUE, FALSE)}

\* void resize(Index size, Index rows, Index cols)
resizeRC(I, h, i, size, r, c) ==
  LET oldSize == getRows(I[i]) * getCols(I[i])
      d == conditional_aligned_delete_auto(h, I[i].m_data, oldSize)
      del == CallDelete(oldSize)
  IN IF size # oldSize
     THEN IF d.bad THEN {Out(I, h, <<del>>, TRUE, TRUE)}
          ELSE IF size > 0
          THEN {IF o.ok
                THEN Out([I EXCEPT ![i] = setCols(setRows([@ EXCEPT !.m_data = o.ptr], r), c)], o.heap,
                         <<del, CallNew(size)>>, TRUE, FALSE)
                ELSE Out(I, d.heap, <<del, CallNew(size)>>, FALSE, FALSE)
                : o \in conditional_aligned_new_auto(d.heap, size)}
          ELSE {Out([I EXCEPT ![i] = setCols(setRows([@ EXCEPT !.m_data = Null], r), c)], d.heap,
                    <<del>>, TRUE, FALSE)}
     ELSE {Out([I EXCEPT ![i] = setCols(setRows(@, r), c)], h, <<>>, TRUE, FALSE)}

(* ------------------------------ actions -------------------------------- *)
\* the outcomes in which every allocation succeeded
Completed(outs) == {o \in outs : o.ok}

IsI == design = "Indices" /\ SizeT = Dynamic /\ ~doubleFree
IsRC == design = "RowCol" /\ SizeT = Dynamic /\ ~doubleFree

DefaultConstruct(i) ==
  /\ IsI /\ ~inst[i].live
  /\ \E o \in Completed(ctorDefault(inst, heap, i)) : Commit("ctorDefault", FALSE, o)

Construct(i, r, c) ==
  /\ IsI /\ ~inst[i].live
  /\ \E o \in Completed(ctorSized(inst, heap, i, r * c, r, c)) : Commit("ctorSized", FALSE, o)

CopyConstruct(i, j) ==
  /\ IsI /\ ~inst[i].live /\ inst[j].live
  /\ \E o \in Completed(ctorCopy(inst, heap, i, j)) : Commit("ctorCopy", i = j, o)

MoveConstruct(i, j) ==
  /\ IsI /\ ~inst[i].live /\ inst[j].live
  /\ \E o \in Completed(ctorMove(inst, heap, i, j)) : Commit("ctorMove", i = j, o)

CopyAssign(i, j) ==
  /\ IsI /\ inst[i].live /\ inst[j].live
  /\ \E o \in Completed(assignCopy(inst, heap, i, j)) : Commit("assignCopy", i = j, o)

MoveAssign(i, j) ==
  /\ IsI /\ inst[i].live /\ inst[j].live
  /\ \E o \in Completed(assignMove(inst, heap, i, j)) : Commit("assignMove", i = j, o)

Destroy(i) ==
  /\ IsI /\ inst[i].live
  /\ \E o \in Completed(dtor(inst, heap, i)) : Commit("dtor", FALSE, o)

Swap(i, j) ==
  /\ IsI /\ inst[i].live /\ inst[j].live
  /\ \E o \in Completed(swap(inst, heap, i, j)) : Commit("swap", i = j, o)

ConservativeResize(i, r, c) ==
  /\ IsI /\ inst[i].live
  /\ \E o \in Completed(conservativeResize(inst, heap, i, r * c, r, c)) :
       Commit("conservativeResize", FALSE, o)

Resize(i, r, c) ==
  /\ IsI /\ inst[i].live
  /\ \E o \in Completed(resize(inst, heap, i, r * c, r, c)) : Commit("resize", FALSE, o)

DefaultConstructRC(i) ==
  /\ IsRC /\ ~inst[i].live
  /\ \E o \in Completed(ctorDefaultRC(inst, heap, i)) : Commit("ctorDefault", FALSE, o)

ConstructRC(i, r, c) ==
  /\ IsRC /\ ~inst[i].live
  /\ \E o \in Completed(ctorSizedRC(inst, heap, i, r * c, r, c)) : Commit("ctorSized", FALSE, o)

CopyConstructRC(i, j) ==
  /\ IsRC /\ ~inst[i].live /\ inst[j].live
  /\ \E o \in Completed(ctorCopyRC(inst, heap, i, j)) : Commit("ctorCopy", i = j, o)

MoveConstructRC(i, j) ==
  /\ IsRC /\ ~inst[i].live /\ inst[j].live
  /\ \E o \in Completed(ctorMoveRC(inst, heap, i, j)) : Commit("ctorMove", i = j, o)

DestroyRC(i) ==
  /\ IsRC /\ inst[i].live
  /\ \E o \in Completed(dtorRC(inst, heap, i)) : Commit("dtor", FALSE, o)

SwapRC(i, j) ==
  /\ IsRC /\ inst[i].live /\ inst[j].live
  /\ \E o \in Completed(swapRC(inst, heap, i, j)) : Commit("swap", i = j, o)

ConservativeResizeRC(i, r, c) ==
  /\ IsRC /\ inst[i].live
  /\ \E o \in Completed(conservativeResizeRC(inst, heap, i, r * c, r, c)) :
       Commit("conservativeResize", FALSE, o)

ResizeRC(i, r, c) ==
  /\ IsRC /\ inst[i].live
  /\ \E o \in Completed(resizeRC(inst, heap, i, r * c, r, c)) : Commit("resize", FALSE, o)

\* the enclosing matrix writes element k (1-based here) through data()
Write(i, k, v) ==
  /\ SizeT = Dynamic /\ ~doubleFree /\ inst[i].live
  /\ inst[i].m_data # Null /\ heap[inst[i].m_data].st = "live"
  /\ k <= Min(rows(inst[i]) * cols(inst[i]), Len(heap[inst[i].m_data].elems))
  /\ heap[inst[i].m_data].elems[k] # v
  /\ Commit("write", FALSE,
            Out(inst, [heap EXCEPT ![inst[i].m_data].elems[k] = v], <<>>, TRUE, FALSE))

\* the operations of part_000
NextI ==
  \/ \E i \in Inst : DefaultConstruct(i)
  \/ \E i \in Inst, rc \in Shapes : Construct(i, rc[1], rc[2])
  \/ \E i, j \in Inst : CopyConstruct(i, j)
  \/ \E i, j \in Inst : MoveConstruct(i, j)
  \/ \E i, j \in Inst : CopyAssign(i, j)
  \/ \E i, j \in Inst : MoveAssign(i, j)
  \/ \E i \in Inst : Destroy(i)
  \/ \E i, j \in Inst : Swap(i, j)
  \/ \E i \in Inst, rc \in Shapes : ConservativeResize(i, rc[1], rc[2])
  \/ \E i \in Inst, rc \in Shapes : Resize(i, rc[1], rc[2])
  \/ \E i \in Inst, k \in 1..MaxSize, v \in Val : Write(i, k, v)

\* the operations of DenseStorage.h
NextRC ==
  \/ \E i \in Inst : DefaultConstructRC(i)
  \/ \E i \in Inst, rc \in Shapes : ConstructRC(i, rc[1], rc[2])
  \/ \E i, j \in Inst : CopyConstructRC(i, j)
  \/ \E i, j \in Inst : MoveConstructRC(i, j)
  \/ \E i \in Inst : DestroyRC(i)
  \/ \E i, j \in Inst : SwapRC(i, j)
  \/ \E i \in Inst, rc \in Shapes : ConservativeResizeRC(i, rc[1], rc[2])
  \/ \E i \in Inst, rc \in Shapes : ResizeRC(i, rc[1], rc[2])

Next == NextI \/ NextRC

\* both designs, every allocation succeeding
Spec == Init /\ [][Next]_vars

\* the operations the two designs have in common: construction, destruction,
\* swap, resize, conservativeResize, and the writes of the enclosing matrix
NextShared ==
  \/ \E i \in Inst : DefaultConstruct(i) \/ DefaultConstructRC(i)
  \/ \E i \in Inst, rc \in Shapes : Construct(i, rc[1], rc[2]) \/ ConstructRC(i, rc[1], rc[2])
  \/ \E i \in Inst : Destroy(i) \/ DestroyRC(i)
  \/ \E i, j \in Inst : Swap(i, j) \/ SwapRC(i, j)
  \/ \E i \in Inst, rc \in Shapes :
       ConservativeResize(i, rc[1], rc[2]) \/ ConservativeResizeRC(i, rc[1], rc[2])
  \/ \E i \in Inst, rc \in Shapes : Resize(i, rc[1], rc[2]) \/ ResizeRC(i, rc[1], rc[2])
  \/ \E i \in Inst, k \in 1..MaxSize, v \in Val : Write(i, k, v)

SpecShared == Init /\ [][NextShared]_vars

\* the design of part_000 alone, every allocation succeeding
InitI == Init /\ design = "Indices"
SpecI == InitI /\ [][NextI]_vars


\* the design of DenseStorage.h alone, every allocation succeeding
InitRC == Init /\ design = "RowCol"
SpecRC == InitRC /\ [][NextRC]_vars

(* ----------------- part_000 with a failing allocation ------------------ *)
\* the outcomes in which an allocation failed and the failure reached the caller
Failed(outs) == {o \in outs : ~o.ok}

\* b = a whose allocation fails
CopyAssignFails(i, j) ==
  /\ IsI /\ ~allocFailed /\ inst[i].live /\ inst[j].live
  /\ \E o \in Failed(assignCopy(inst, heap, i, j)) : Commit("assignCopy", i = j, o)

\* the caller unwinds after the failure: the objects are destroyed
DestroyAfterFailure(i) == allocFailed /\ Destroy(i)

\* every operation of part_000; a copy assignment may fail, after which the
\* objects are only destroyed
NextFail ==
  \/ ~allocFailed /\ NextI
  \/ \E i, j \in Inst : CopyAssignFails(i, j)
  \/ \E i \in Inst : DestroyAfterFailure(i)

SpecFail == InitI /\ [][NextFail]_vars

(* --- DenseStorage<T, Size, Rows, Cols> and DenseStorage<T, 0, Rows, Cols> --- *)
\* The storage with a compile-time capacity: an in-place plain_array<T, Size>
\* (general template) or no buffer member at all (Size == 0, whose array is
\* the empty sequence here). All of its operations are the compiler's
\* memberwise ones or touch the extents only; none calls the capability.

\* the <Rows, Cols> of the instantiations with a compile-time capacity
StaticInstantiations == Instantiations \cup {<<FixedExt, FixedExt>>}

\* the (rows, cols) a caller may pass: rows*cols within the capacity
StaticShapes == {rc \in RowArgs \X ColArgs : rc[1] * rc[2] <= SizeT}

InitStatic ==
  /\ design \in {"Indices", "RowCol"}
  /\ SizeT \in {0, FixedSize}
  /\ \E t \in StaticInstantiations :
       RowsT = t[1] /\ ColsT = t[2] /\ (SizeT = 0 => t # <<FixedExt, FixedExt>>)
  /\ m_array = [i \in Inst |-> <<>>]
  /\ inst = [i \in Inst |-> Dead]
  /\ heap = [p \in Ptr |-> UnusedCell]
  /\ lastSet = [i \in Inst |-> [rows |-> 0, cols |-> 0]]
  /\ doubleFree = FALSE
  /\ allocFailed = FALSE
  /\ last = NoOp

\* the address of the in-place array of object i: never null, never a heap buffer
InPlace(i) == MaxAlloc + i

\* data() that returns the address of an in-place array whatever the capacity
dataInPlaceAlways(I, i) == IF SizeT = Dynamic THEN I[i].m_data ELSE InPlace(i)

\* T* data() of object i among the objects I, in each of the three specialisations
data(I, i) ==
  IF SizeT = Dynamic THEN I[i].m_data
  ELSE IF SizeT = 0 THEN Null
  ELSE InPlace(i)

\* an outcome of an operation: the objects and their in-place arrays
OutStatic(I, A) == [inst |-> I, arr |-> A]

CommitStatic(op, same, o) ==
  /\ inst' = o.inst
  /\ m_array' = o.arr
  /\ last' = [op |-> op, same |-> same, ok |-> TRUE, calls |-> <<>>]
  /\ UNCHANGED <<design, RowsT, ColsT, SizeT, heap, lastSet, doubleFree, allocFailed>>

\* ---- part_000 ----
\* DenseStorage() = default: extents by DenseStorageIndices(), elements uninitialised
ctorDefaultStatic(I, A, i) ==
  {OutStatic([I EXCEPT ![i] = Fresh], [A EXCEPT ![i] = e]) : e \in Seqs(SizeT)}

\* sized construction that stores the arguments it is passed in the wrong order
ctorSizedStaticTransposed(I, A, i, r, c) ==
  {OutStatic([I EXCEPT ![i] = IdxSet(Fresh, c, r)], [A EXCEPT ![i] = e]) : e \in Seqs(SizeT)}

\* DenseStorage(Index size, Index rows, Index cols) : Base(rows, cols)
ctorSizedStatic(I, A, i, r, c) ==
  {OutStatic([I EXCEPT ![i] = IdxSet(Fresh, r, c)], [A EXCEPT ![i] = e]) : e \in Seqs(SizeT)}

\* DenseStorage(const DenseStorage&) = default
ctorCopyStatic(I, A, i, j) ==
  {OutStatic([I EXCEPT ![i] = [I[j] EXCEPT !.live = TRUE]], [A EXCEPT ![i] = A[j]])}

\* DenseStorage(DenseStorage&&) = default
ctorMoveStatic(I, A, i, j) ==
  {OutStatic([I EXCEPT ![i] = [I[j] EXCEPT !.live = TRUE]], [A EXCEPT ![i] = A[j]])}

\* DenseStorage& operator=(const DenseStorage&) = default
assignCopyStatic(I, A, i, j) ==
  {OutStatic([I EXCEPT ![i] = I[j]], [A EXCEPT ![i] = A[j]])}

\* DenseStorage& operator=(DenseStorage&&) = default
assignMoveStatic(I, A, i, j) ==
  {OutStatic([I EXCEPT ![i] = I[j]], [A EXCEPT ![i] = A[j]])}

\* swap that exchanges the extents and leaves the elements where they are
swapStaticExtentsOnly(I, A, i, j) ==
  {OutStatic([I EXCEPT ![i].m_rows = IF RowsT = Dynamic THEN I[j].m_rows ELSE @,
                       ![j].m_rows = IF RowsT = Dynamic THEN I[i].m_rows ELSE @,
                       ![i].m_cols = IF ColsT = Dynamic THEN I[j].m_cols ELSE @,
                       ![j].m_cols = IF ColsT = Dynamic THEN I[i].m_cols ELSE @], A)}

\* void swap(DenseStorage& other): numext::swap(m_data, other.m_data); Base::swap(other)
swapStatic(I, A, i, j) ==
  {OutStatic([I EXCEPT ![i].m_rows = IF RowsT = Dynamic THEN I[j].m_rows ELSE @,
                       ![j].m_rows = IF RowsT = Dynamic THEN I[i].m_rows ELSE @,
                       ![i].m_cols = IF ColsT = Dynamic THEN I[j].m_cols ELSE @,
                       ![j].m_cols = IF ColsT = Dynamic THEN I[i].m_cols ELSE @],
             [A EXCEPT ![i] = A[j], ![j] = A[i]])}

\* void conservativeResize(Index, Index rows, Index cols): Base::set(rows, cols)
conservativeResizeStatic(I, A, i, r, c) == {OutStatic([I EXCEPT ![i] = IdxSet(@, r, c)], A)}

\* resize that value-initialises the elements
resizeStaticClears(I, A, i, r, c) ==
  {OutStatic([I EXCEPT ![i] = IdxSet(@, r, c)], [A EXCEPT ![i] = [k \in 1..Len(@) |-> 0]])}

\* void resize(Index, Index rows, Index cols): Base::set(rows, cols)
resizeStatic(I, A, i, r, c) == {OutStatic([I EXCEPT ![i] = IdxSet(@, r, c)], A)}

\* the implicit destructor
dtorStatic(I, A, i) == {OutStatic([I EXCEPT ![i] = Dead], [A EXCEPT ![i] = <<>>])}

\* ---- DenseStorage.h ----
\* DenseStorage() = default
ctorDefaultStaticRC(I, A, i) ==
  {OutStatic([I EXCEPT ![i] = Fresh], [A EXCEPT ![i] = e]) : e \in Seqs(SizeT)}

\* DenseStorage(Index, Index rows, Index cols) : RowBase(rows), ColBase(cols)
ctorSizedStaticRC(I, A, i, r, c) ==
  {OutStatic([I EXCEPT ![i] = setCols(setRows(Fresh, r), c)], [A EXCEPT ![i] = e]) : e \in Seqs(SizeT)}

\* DenseStorage(const DenseStorage&) = default
ctorCopyStaticRC(I, A, i, j) ==
  {OutStatic([I EXCEPT ![i] = [I[j] EXCEPT !.live = TRUE]], [A EXCEPT ![i] = A[j]])}

\* DenseStorage(DenseStorage&&) = default
ctorMoveStaticRC(I, A, i, j) ==
  {OutStatic([I EXCEPT ![i] = [I[j] EXCEPT !.live = TRUE]], [A EXCEPT ![i] = A[j]])}

\* void swap(DenseStorage& other): numext::swap(m_data, other.m_data); swapRows; swapCols
swapStaticRC(I, A, i, j) ==
  LET I2 == [I EXCEPT ![i].m_rows = IF RowsT = Dynamic THEN I[j].m_rows ELSE @,
                      ![j].m_rows = IF RowsT = Dynamic THEN I[i].m_rows ELSE @]
      I3 == [I2 EXCEPT ![i].m_cols = IF ColsT = Dynamic THEN I2[j].m_cols ELSE @,
                       ![j].m_cols = IF ColsT = Dynamic THEN I2[i].m_cols ELSE @]
  IN {OutStatic(I3, [A EXCEPT ![i] = A[j], ![j] = A[i]])}

\* void conservativeResize(Index, Index rows, Index cols): setRows(rows); setCols(cols)
conservativeResizeStaticRC(I, A, i, r, c) ==
  {OutStatic([I EXCEPT ![i] = setCols(setRows(@, r), c)], A)}

\* void resize(Index, Index rows, Index cols): setRows(rows); setCols(cols)
resizeStaticRC(I, A, i, r, c) ==
  {OutStatic([I EXCEPT ![i] = setCols(setRows(@, r), c)], A)}

\* the implicit destructor
dtorStaticRC(I, A, i) == {OutStatic([I EXCEPT ![i] = Dead], [A EXCEPT ![i] = <<>>])}

\* ---- actions ----
IsStaticI == design = "Indices" /\ SizeT # Dynamic
IsStaticRC == design = "RowCol" /\ SizeT # Dynamic

DefaultConstructStatic(i) ==
  /\ SizeT # Dynamic /\ ~inst[i].live
  /\ \E o \in (IF design = "Indices" THEN ctorDefaultStatic(inst, m_array, i)
               ELSE ctorDefaultStaticRC(inst, m_array, i)) : CommitStatic("ctorDefault", FALSE, o)

ConstructStatic(i, r, c) ==
  /\ SizeT # Dynamic /\ ~inst[i].live
  /\ \E o \in (IF design = "Indices" THEN ctorSizedStatic(inst, m_array, i, r, c)
               ELSE ctorSizedStaticRC(inst, m_array, i, r, c)) : CommitStatic("ctorSized", FALSE, o)

CopyConstructStatic(i, j) ==
  /\ SizeT # Dynamic /\ ~inst[i].live /\ inst[j].live
  /\ \E o \in (IF design = "Indices" THEN ctorCopyStatic(inst, m_array, i, j)
               ELSE ctorCopyStaticRC(inst, m_array, i, j)) : CommitStatic("ctorCopy", FALSE, o)

MoveConstructStatic(i, j) ==
  /\ SizeT # Dynamic /\ ~inst[i].live /\ inst[j].live
  /\ \E o \in (IF design = "Indices" THEN ctorMoveStatic(inst, m_array, i, j)
               ELSE ctorMoveStaticRC(inst, m_array, i, j)) : CommitStatic("ctorMove", FALSE, o)

\* DenseStorage.h declares no assignment operator
CopyAssignStatic(i, j) ==
  /\ IsStaticI /\ inst[i].live /\ inst[j].live
  /\ \E o \in assignCopyStatic(inst, m_array, i, j) : CommitStatic("assignCopy", i = j, o)

MoveAssignStatic(i, j) ==
  /\ IsStaticI /\ inst[i].live /\ inst[j].live
  /\ \E o \in assignMoveStatic(inst, m_array, i, j) : CommitStatic("assignMove", i = j, o)

SwapStatic(i, j) ==
  /\ SizeT # Dynamic /\ inst[i].live /\ inst[j].live
  /\ \E o \in (IF design = "Indices" THEN swapStatic(inst, m_array, i, j)
               ELSE swapStaticRC(inst, m_array, i, j)) : CommitStatic("swap", i = j, o)

ConservativeResizeStatic(i, r, c) ==
  /\ SizeT # Dynamic /\ inst[i].live
  /\ \E o \in (IF design = "Indices" THEN conservativeResizeStatic(inst, m_array, i, r, c)
               ELSE conservativeResizeStaticRC(inst, m_array, i, r, c)) :
       CommitStatic("conservativeResize", FALSE, o)

ResizeStatic(i, r, c) ==
  /\ SizeT # Dynamic /\ inst[i].live
  /\ \E o \in (IF design = "Indices" THEN resizeStatic(inst, m_array, i, r, c)
               ELSE resizeStaticRC(inst, m_array, i, r, c)) : CommitStatic("resize", FALSE, o)

DestroyStatic(i) ==
  /\ SizeT # Dynamic /\ inst[i].live
  /\ \E o \in (IF design = "Indices" THEN dtorStatic(inst, m_array, i)
               ELSE dtorStaticRC(inst, m_array, i)) : CommitStatic("dtor", FALSE, o)

\* the enclosing matrix writes element k (1-based here) of the in-place array
WriteStatic(i, k, v) ==
  /\ SizeT # Dynamic /\ inst[i].live
  /\ k <= rows(inst[i]) * cols(inst[i]) /\ k <= Len(m_array[i])
  /\ m_array[i][k] # v
  /\ CommitStatic("write", FALSE, OutStatic(inst, [m_array EXCEPT ![i][k] = v]))

NextStatic ==
  \/ \E i \in Inst : DefaultConstructStatic(i)
  \/ \E i \in Inst, rc \in StaticShapes : ConstructStatic(i, rc[1], rc[2])
  \/ \E i, j \in Inst : CopyConstructStatic(i, j)
  \/ \E i, j \in Inst : MoveConstructStatic(i, j)
  \/ \E i, j \in Inst : CopyAssignStatic(i, j)
  \/ \E i, j \in Inst : MoveAssignStatic(i, j)
  \/ \E i, j \in Inst : SwapStatic(i, j)
  \/ \E i \in Inst, rc \in StaticShapes : ConservativeResizeStatic(i, rc[1], rc[2])
  \/ \E i \in Inst, rc \in StaticShapes : ResizeStatic(i, rc[1], rc[2])
  \/ \E i \in Inst : DestroyStatic(i)
  \/ \E i \in Inst, k \in 1..FixedSize, v \in Val : WriteStatic(i, k, v)

\* the fixed-capacity and the zero-capacity storage of both designs
SpecStatic == InitStatic /\ [][NextStatic]_vars

\* the three specialisations of both designs
InitAll == Init \/ InitStatic
NextAll == NextShared \/ NextStatic
SpecAll == InitAll /\ [][NextAll]_vars

(* ------------------- the extent holders on their own ------------------- *)
\* Two holders of one instantiation, default-constructed, then any sequence
\* of set and swap calls with any arguments. A holder is the pair of members
\* (m_rows, m_cols) of an inst record; a fixed extent has no member.

\* void DenseStorageIndices::swap(DenseStorageIndices& other)
IdxSwap(I, i, j) ==
  [I EXCEPT ![i].m_rows = IF RowsT = Dynamic THEN I[j].m_rows ELSE @,
            ![j].m_rows = IF RowsT = Dynamic THEN I[i].m_rows ELSE @,
            ![i].m_cols = IF ColsT = Dynamic THEN I[j].m_cols ELSE @,
            ![j].m_cols = IF ColsT = Dynamic THEN I[i].m_cols ELSE @]
\* void DenseStorageRowIndex::swapRows(DenseStorageRowIndex& other)
swapRows(I, i, j) ==
  [I EXCEPT ![i].m_rows = IF RowsT = Dynamic THEN I[j].m_rows ELSE @,
            ![j].m_rows = IF RowsT = Dynamic THEN I[i].m_rows ELSE @]
\* void DenseStorageColIndex::swapCols(DenseStorageColIndex& other)
swapCols(I, i, j) ==
  [I EXCEPT ![i].m_cols = IF ColsT = Dynamic THEN I[j].m_cols ELSE @,
            ![j].m_cols = IF ColsT = Dynamic THEN I[i].m_cols ELSE @]

\* the values a caller may pass to a set
ExtentArgs == 0..MaxSize

InitHolder ==
  /\ design \in {"Indices", "RowCol"}
  /\ \E t \in StaticInstantiations : RowsT = t[1] /\ ColsT = t[2]
  /\ SizeT = 0
  /\ m_array = [i \in Inst |-> <<>>]
  /\ inst = [i \in Inst |-> Fresh]
  /\ heap = [p \in Ptr |-> UnusedCell]
  /\ lastSet = [i \in Inst |-> [rows |-> 0, cols |-> 0]]
  /\ doubleFree = FALSE
  /\ allocFailed = FALSE
  /\ last = NoOp

CommitHolder(op, same, I, L) ==
  /\ inst' = I
  /\ lastSet' = L
  /\ last' = [op |-> op, same |-> same, ok |-> TRUE, calls |-> <<>>]
  /\ UNCHANGED <<design, RowsT, ColsT, SizeT, m_array, heap, doubleFree, allocFailed>>

\* DenseStorageIndices::set(rows, cols)
HolderSet(i, r, c) ==
  /\ design = "Indices"
  /\ CommitHolder("set", FALSE, [inst EXCEPT ![i] = IdxSet(@, r, c)],
                  [lastSet EXCEPT ![i] = [rows |-> r, cols |-> c]])

\* DenseStorageRowIndex::setRows(rows)
HolderSetRows(i, r) ==
  /\ design = "RowCol"
  /\ CommitHolder("setRows", FALSE, [inst EXCEPT ![i] = setRows(@, r)],
                  [lastSet EXCEPT ![i].rows = r])

\* DenseStorageColIndex::setCols(cols)
HolderSetCols(i, c) ==
  /\ design = "RowCol"
  /\ CommitHolder("setCols", FALSE, [inst EXCEPT ![i] = setCols(@, c)],
                  [lastSet EXCEPT ![i].cols = c])

\* DenseStorageIndices::swap(other)
HolderSwap(i, j) ==
  /\ design = "Indices"
  /\ CommitHolder("swap", i = j, IdxSwap(inst, i, j),
                  [lastSet EXCEPT ![i] = lastSet[j], ![j] = lastSet[i]])

\* DenseStorageRowIndex::swapRows(other)
HolderSwapRows(i, j) ==
  /\ design = "RowCol"
  /\ CommitHolder("swapRows", i = j, swapRows(inst, i, j),
                  [lastSet EXCEPT ![i].rows = lastSet[j].rows, ![j].rows = lastSet[i].rows])

\* DenseStorageColIndex::swapCols(other)
HolderSwapCols(i, j) ==
  /\ design = "RowCol"
  /\ CommitHolder("swapCols", i = j, swapCols(inst, i, j),
                  [lastSet EXCEPT ![i].cols = lastSet[j].cols, ![j].cols = lastSet[i].cols])

NextHolder ==
  \/ \E i \in Inst, r, c \in ExtentArgs : HolderSet(i, r, c)
  \/ \E i \in Inst, r \in ExtentArgs : HolderSetRows(i, r)
  \/ \E i \in Inst, c \in ExtentArgs : HolderSetCols(i, c)
  \/ \E i, j \in Inst : HolderSwap(i, j)
  \/ \E i, j \in Inst : HolderSwapRows(i, j)
  \/ \E i, j \in Inst : HolderSwapCols(i, j)

SpecHolder == InitHolder /\ [][NextHolder]_vars

(* ------------------------------ properties ----------------------------- *)
\* element count an object's extents describe
Count(s) == rows(s) * cols(s)
\* the elements of the buffer an object holds (none behind a null pointer)
Held(h, s) == IF s.m_data # Null /\ h[s.m_data].st = "live" THEN h[s.m_data].elems ELSE <<>>
\* an object's pointer is null or points to an allocated buffer
Valid(h, s) == s.m_data = Null \/ h[s.m_data].st = "live"
AllDead == \A i \in Inst : ~inst[i].live

\* C1: part_000, runtime capacity: in every state reached by constructions,
\* copies, moves, assignments, resize, conservativeResize and swap with valid
\* arguments and no failed allocation, the buffer an object holds is allocated
\* for exactly rows()*cols() elements (a null buffer counts as 0 elements).
C1_CapacityEqualsExtents ==
  \A i \in Inst : inst[i].live =>
    /\ Valid(heap, inst[i])
    /\ Allocated(heap, inst[i].m_data) = IdxRows(inst[i]) * IdxCols(inst[i])

C1_Witness ==
  /\ last.op \in {"conservativeResize", "assignCopy", "assignMove"}
  /\ \E i \in Inst : inst[i].live /\ inst[i].m_data # Null
                     /\ Allocated(heap, inst[i].m_data) = IdxRows(inst[i]) * IdxCols(inst[i])
                     /\ Allocated(heap, inst[i].m_data) > 1

\* C2: part_000: copy assignment of an object to itself leaves its extents and
\* its elements [0, rows()*cols()) as they were.
C2_SelfAssignmentSafe ==
  [][\A i \in Inst :
       (last'.op = "assignCopy" /\ CopyAssign(i, i)) =>
         /\ IdxRows(inst'[i]) = IdxRows(inst[i])
         /\ IdxCols(inst'[i]) = IdxCols(inst[i])
         /\ Len(Held(heap', inst'[i])) >= Count(inst[i])
         /\ \A k \in 1..Count(inst[i]) : Held(heap', inst'[i])[k] = Held(heap, inst[i])[k]]_vars

\* C3: part_000: once every object is destroyed, no buffer is still allocated
\* and none was released twice.
C3_EveryBufferReleasedOnce ==
  AllDead => (\A p \in Ptr : heap[p].st # "live") /\ ~doubleFree

\* C4: part_000: no two distinct live objects hold the same non-null buffer.
C4_ExclusiveOwnership ==
  \A i, j \in Inst :
    (i # j /\ inst[i].live /\ inst[j].live /\ inst[i].m_data = inst[j].m_data)
      => inst[i].m_data = Null

C4_Witness ==
  /\ last.op \in {"ctorCopy", "assignCopy"} /\ ~last.same
  /\ \E i, j \in Inst : /\ i # j /\ inst[i].live /\ inst[j].live
                        /\ inst[i].m_data # Null /\ inst[j].m_data # Null
                        /\ inst[i].m_data # inst[j].m_data


\* a copy step: object i is copy-constructed from, or copy-assigned, object j
CopyStep(i, j) ==
  /\ i # j /\ last'.op \in {"ctorCopy", "assignCopy"}
  /\ (CopyConstruct(i, j) \/ CopyAssign(i, j))

\* C5: part_000: after copy construction of b from a, or b = a with b distinct
\* from a, b has a's extents and a's elements [0, rows*cols), a is unchanged,
\* the two buffers are distinct, and a write to an element of one object's
\* buffer changes no element of another object's buffer.
C5_CopyIndependent ==
  [][/\ \A i, j \in Inst : CopyStep(i, j) =>
          /\ IdxRows(inst'[i]) = IdxRows(inst[j])
          /\ IdxCols(inst'[i]) = IdxCols(inst[j])
          /\ Len(Held(heap', inst'[i])) >= Count(inst[j])
          /\ \A k \in 1..Count(inst[j]) : Held(heap', inst'[i])[k] = Held(heap, inst[j])[k]
          /\ inst'[j] = inst[j]
          /\ Held(heap', inst'[j]) = Held(heap, inst[j])
          /\ (inst'[i].m_data = Null \/ inst'[i].m_data # inst'[j].m_data)
     /\ \A i \in Inst, k \in 1..MaxSize, v \in Val :
          (last'.op = "write" /\ Write(i, k, v)) =>
            \A j \in Inst \ {i} : Held(heap', inst'[j]) = Held(heap, inst[j])]_vars

C5_Witness ==
  /\ last.op = "assignCopy" /\ ~last.same
  /\ \E i, j \in Inst : /\ i # j /\ inst[i].live /\ inst[j].live
                        /\ inst[i].m_data # Null /\ inst[j].m_data # Null
                        /\ inst[i].m_data # inst[j].m_data
                        /\ Len(Held(heap, inst[i])) = MaxSize
                        /\ Held(heap, inst[i]) = Held(heap, inst[j])
                        /\ Held(heap, inst[i])[1] # Held(heap, inst[i])[2]
                        /\ \E p \in Ptr : heap[p].st = "live" /\ \A x \in Inst : inst[x].m_data # p

\* C6: part_000: move construction of b from a gives b the pointer and extents
\* a had and leaves a with a null buffer, every runtime extent 0 and every
\* fixed extent at its constant.
C6_MoveConstructEmptiesSource ==
  [][\A i, j \in Inst :
       (last'.op = "ctorMove" /\ MoveConstruct(i, j)) =>
         /\ inst'[i].live /\ inst'[i].m_data = inst[j].m_data
         /\ IdxRows(inst'[i]) = IdxRows(inst[j])
         /\ IdxCols(inst'[i]) = IdxCols(inst[j])
         /\ inst'[j].live /\ inst'[j].m_data = Null
         /\ IdxRows(inst'[j]) = (IF RowsT = Dynamic THEN 0 ELSE RowsT)
         /\ IdxCols(inst'[j]) = (IF ColsT = Dynamic THEN 0 ELSE ColsT)
         /\ heap' = heap]_vars

C6_Witness ==
  /\ last.op = "ctorMove"
  /\ \E i, j \in Inst : /\ inst[i].live /\ inst[i].m_data # Null /\ Count(inst[i]) = MaxSize
                        /\ inst[j].live /\ inst[j].m_data = Null /\ Count(inst[j]) = 0

\* C7: part_000, fully dynamic: after b = std::move(a), whatever a and b held,
\* a has rows 0, cols 0 and a null buffer, and b has what a had.
C7_MoveAssignEmptiesSource ==
  [][\A i, j \in Inst :
       (RowsT = Dynamic /\ ColsT = Dynamic /\ i # j /\ last'.op = "assignMove" /\ MoveAssign(i, j)) =>
         /\ inst'[i] = inst[j]
         /\ IdxRows(inst'[j]) = 0 /\ IdxCols(inst'[j]) = 0 /\ inst'[j].m_data = Null]_vars

\* the outcomes resize(r*c, r, c) can have on object i in the current state
ResizeOutcomes(i, r, c) ==
  IF ~inst[i].live \/ doubleFree THEN {}
  ELSE IF design = "Indices" THEN Completed(resize(inst, heap, i, r * c, r, c))
  ELSE Completed(resizeRC(inst, heap, i, r * c, r, c))
\* the outcomes conservativeResize(r*c, r, c) can have on object i
ConservativeResizeOutcomes(i, r, c) ==
  IF ~inst[i].live \/ doubleFree THEN {}
  ELSE IF design = "Indices" THEN Completed(conservativeResize(inst, heap, i, r * c, r, c))
  ELSE Completed(conservativeResizeRC(inst, heap, i, r * c, r, c))
\* the heap an outcome leaves
HeapAfter(o) == Settle(o.heap, o.inst)

\* C8: both designs: resize(size, rows, cols) with size equal to the current
\* rows()*cols() calls nothing of the capability, leaves data() and every
\* element as they were, and sets the extents to (rows, cols).
C8_ResizeSameSizeKeepsBuffer ==
  \A i \in Inst, rc \in Shapes :
    rc[1] * rc[2] = Count(inst[i]) =>
      \A o \in ResizeOutcomes(i, rc[1], rc[2]) :
        /\ o.calls = <<>> /\ ~o.bad
        /\ o.inst[i].m_data = inst[i].m_data
        /\ HeapAfter(o) = heap
        /\ rows(o.inst[i]) = rc[1] /\ cols(o.inst[i]) = rc[2]
        /\ \A j \in Inst \ {i} : o.inst[j] = inst[j]

C8_Witness ==
  /\ last.op = "resize" /\ last.calls = <<>>
  /\ \E i \in Inst : /\ inst[i].live /\ inst[i].m_data # Null /\ Count(inst[i]) = MaxSize
                     /\ \A j \in Inst \ {i} : ~inst[j].live

\* C9: both designs: resize(size, rows, cols) with size different from the
\* current rows()*cols() releases the old buffer once, with the old count, then
\* holds a newly allocated buffer of exactly size elements if size > 0 and a
\* null buffer, without allocating, if size = 0; the extents are (rows, cols).
C9_ResizeReallocates ==
  \A i \in Inst, rc \in Shapes :
    rc[1] * rc[2] # Count(inst[i]) =>
      \A o \in ResizeOutcomes(i, rc[1], rc[2]) :
        LET size == rc[1] * rc[2]
            old == inst[i].m_data
            new == o.inst[i].m_data
            heapAfter == HeapAfter(o)
        IN /\ ~o.bad
           /\ o.calls = (IF size > 0 THEN <<CallDelete(Count(inst[i])), CallNew(size)>>
                         ELSE <<CallDelete(Count(inst[i]))>>)
           /\ old # Null => heap[old].st = "live" /\ heapAfter[old].st = "freed"
           /\ size > 0 => /\ new # Null /\ heap[new].st = "unused"
                          /\ heapAfter[new].st = "live" /\ Len(heapAfter[new].elems) = size
           /\ size = 0 => new = Null
           /\ \A p \in Ptr \ {old, new} : heapAfter[p] = heap[p]
           /\ rows(o.inst[i]) = rc[1] /\ cols(o.inst[i]) = rc[2]

C9_Witness ==
  /\ last.op = "resize" /\ last.calls = <<CallDelete(1), CallNew(MaxSize)>>
  /\ \E p \in Ptr : heap[p].st = "freed"

\* C10: both designs: conservativeResize(M, rows, cols) on an object holding
\* N = rows()*cols() elements passes the old count N, leaves a buffer of exactly
\* M elements whose elements [0, min(N, M)) are the values held before, and sets
\* the extents to (rows, cols).
C10_ConservativeResizePreserves ==
  \A i \in Inst, rc \in Shapes :
    \A o \in ConservativeResizeOutcomes(i, rc[1], rc[2]) :
      LET M == rc[1] * rc[2]
          N == Count(inst[i])
          heapAfter == HeapAfter(o)
      IN /\ ~o.bad
         /\ o.calls = <<CallRealloc(M, N)>>
         /\ Valid(heapAfter, o.inst[i]) /\ Allocated(heapAfter, o.inst[i].m_data) = M
         /\ \A k \in 1..Min(N, M) : Held(heapAfter, o.inst[i])[k] = Held(heap, inst[i])[k]
         /\ rows(o.inst[i]) = rc[1] /\ cols(o.inst[i]) = rc[2]

C10_Witness ==
  /\ last.op = "conservativeResize" /\ last.calls = <<CallRealloc(1, MaxSize)>>
  /\ \E i \in Inst : /\ inst[i].live /\ Len(Held(heap, inst[i])) = 1 /\ Count(inst[i]) = 1
                     /\ \A j \in Inst \ {i} : ~inst[j].live

SwapOutcomes(I, h, i, j) ==
  IF design = "Indices" THEN swap(I, h, i, j) ELSE swapRC(I, h, i, j)
\* the outcomes of a.swap(b) for compile-time capacity
SwapOutcomesStatic(I, A, i, j) ==
  IF design = "Indices" THEN swapStatic(I, A, i, j) ELSE swapStaticRC(I, A, i, j)
\* the extents of object s are those of object t
SameExtents(s, t) == rows(s) = rows(t) /\ cols(s) = cols(t)
\* a fixed extent of s reads as its constant
FixedAtConstant(s) ==
  /\ RowsT # Dynamic => rows(s) = RowsT
  /\ ColsT # Dynamic => cols(s) = ColsT

\* C12: both designs: a.swap(b) exchanges the two states. Runtime capacity: a
\* ends with b's pointer and extents and b with a's, nothing is allocated,
\* released or written. Compile-time capacity: a ends with b's elements and
\* extents and b with a's. A fixed extent stays at its constant.
C12_SwapExchanges ==
  \A i, j \in Inst :
    (inst[i].live /\ inst[j].live /\ ~doubleFree) =>
      IF SizeT = Dynamic
      THEN \A o \in SwapOutcomes(inst, heap, i, j) :
             /\ o.ok /\ ~o.bad /\ o.calls = <<>> /\ HeapAfter(o) = heap
             /\ o.inst[i].m_data = inst[j].m_data /\ o.inst[j].m_data = inst[i].m_data
             /\ SameExtents(o.inst[i], inst[j]) /\ SameExtents(o.inst[j], inst[i])
             /\ FixedAtConstant(o.inst[i]) /\ FixedAtConstant(o.inst[j])
             /\ \A x \in Inst \ {i, j} : o.inst[x] = inst[x]
      ELSE \A o \in SwapOutcomesStatic(inst, m_array, i, j) :
             /\ o.arr[i] = m_array[j] /\ o.arr[j] = m_array[i]
             /\ SameExtents(o.inst[i], inst[j]) /\ SameExtents(o.inst[j], inst[i])
             /\ FixedAtConstant(o.inst[i]) /\ FixedAtConstant(o.inst[j])
             /\ \A x \in Inst \ {i, j} : o.inst[x] = inst[x] /\ o.arr[x] = m_array[x]

C12_Witness ==
  /\ last.op = "swap" /\ ~last.same /\ SizeT = FixedSize
  /\ inst[1].live /\ inst[2].live
  /\ m_array[1] # m_array[2]
  /\ Count(inst[1]) # Count(inst[2])

\* C13: both designs, each specialisation: a.swap(b) done twice restores the
\* extents of both objects and their buffers: the same pointers for runtime
\* capacity, the same element values for compile-time capacity.
C13_SwapInvolution ==
  \A i, j \in Inst :
    (inst[i].live /\ inst[j].live /\ ~doubleFree) =>
      IF SizeT = Dynamic
      THEN \A o1 \in SwapOutcomes(inst, heap, i, j) :
             \A o2 \in SwapOutcomes(o1.inst, o1.heap, i, j) :
               /\ \A x \in Inst : /\ o2.inst[x].m_data = inst[x].m_data
                                   /\ SameExtents(o2.inst[x], inst[x])
               /\ HeapAfter(o2) = heap
      ELSE \A o1 \in SwapOutcomesStatic(inst, m_array, i, j) :
             \A o2 \in SwapOutcomesStatic(o1.inst, o1.arr, i, j) :
               /\ \A x \in Inst : SameExtents(o2.inst[x], inst[x])
               /\ o2.arr = m_array

C13_Witness ==
  /\ last.op = "swap" /\ ~last.same /\ SizeT = Dynamic
  /\ inst[1].live /\ inst[2].live
  /\ inst[1].m_data # Null /\ inst[2].m_data # Null /\ inst[1].m_data # inst[2].m_data
  /\ ~SameExtents(inst[1], inst[2])

\* the outcomes of resize and of conservativeResize for compile-time capacity
ResizeOutcomesStatic(i, r, c) ==
  IF design = "Indices" THEN resizeStatic(inst, m_array, i, r, c)
  ELSE resizeStaticRC(inst, m_array, i, r, c)
ConservativeResizeOutcomesStatic(i, r, c) ==
  IF design = "Indices" THEN conservativeResizeStatic(inst, m_array, i, r, c)
  ELSE conservativeResizeStaticRC(inst, m_array, i, r, c)

\* C14: both designs, fixed capacity (Size > 0): resize and conservativeResize
\* do the same thing: the extents become (rows, cols), data() is the same
\* non-null in-place address before and after, no element changes.
C14_FixedResizeSetsExtentsOnly ==
  \A i \in Inst :
    (SizeT # Dynamic /\ SizeT > 0 /\ inst[i].live) =>
      /\ data(inst, i) # Null
      /\ \A rc \in StaticShapes :
           /\ ResizeOutcomesStatic(i, rc[1], rc[2]) = ConservativeResizeOutcomesStatic(i, rc[1], rc[2])
           /\ \A o \in ResizeOutcomesStatic(i, rc[1], rc[2]) \cup
                        ConservativeResizeOutcomesStatic(i, rc[1], rc[2]) :
                /\ rows(o.inst[i]) = rc[1] /\ cols(o.inst[i]) = rc[2]
                /\ data(o.inst, i) = data(inst, i)
                /\ o.arr = m_array
                /\ \A j \in Inst \ {i} : o.inst[j] = inst[j]

C14_Witness ==
  /\ last.op = "conservativeResize" /\ SizeT = FixedSize
  /\ \E i \in Inst : /\ inst[i].live /\ Count(inst[i]) = FixedSize
                     /\ m_array[i][1] # m_array[i][2]
                     /\ data(inst, i) = InPlace(i)

\* C15: both designs, zero capacity (Size == 0): data() is null in every
\* state reached by construction, copy, move, swap, resize and
\* conservativeResize, and the two resizes change the runtime extents only.
C15_ZeroCapacityDataNull ==
  \A i \in Inst :
    (SizeT = 0 /\ inst[i].live) =>
      /\ data(inst, i) = Null
      /\ \A rc \in StaticShapes :
           \A o \in ResizeOutcomesStatic(i, rc[1], rc[2]) \cup
                    ConservativeResizeOutcomesStatic(i, rc[1], rc[2]) :
             /\ data(o.inst, i) = Null
             /\ rows(o.inst[i]) = rc[1] /\ cols(o.inst[i]) = rc[2]
             /\ o.arr = m_array
             /\ \A j \in Inst \ {i} : o.inst[j] = inst[j]

C15_Witness ==
  /\ last.op = "resize" /\ SizeT = 0
  /\ \E i \in Inst : inst[i].live /\ (rows(inst[i]) = MaxSize \/ cols(inst[i]) = MaxSize)
  /\ \E j \in Inst : inst[j].live /\ rows(inst[j]) + cols(inst[j]) <= 1

\* C16: both designs, each extent on its own: after any sequence of set and
\* swap calls the getter of a fixed extent returns its constant whatever was
\* passed, and the getter of a dynamic extent returns the value most recently
\* set (0 if none), a swap exchanging the values of the two holders; setting
\* one extent of a holder never changes the other.
C16_GetterReturnsLastSet ==
  \A i \in Inst :
    /\ rows(inst[i]) = (IF RowsT = Dynamic THEN lastSet[i].rows ELSE RowsT)
    /\ cols(inst[i]) = (IF ColsT = Dynamic THEN lastSet[i].cols ELSE ColsT)

C16_Witness ==
  /\ last.op \in {"set", "setRows"}
  /\ RowsT = FixedExt /\ ColsT = Dynamic
  /\ \E i \in Inst : /\ lastSet[i].rows = MaxSize /\ rows(inst[i]) = FixedExt
                     /\ cols(inst[i]) = MaxSize
                     /\ \E j \in Inst \ {i} : cols(inst[j]) = 1

\* the outcomes of constructing object i from (r*c, r, c), runtime capacity
ConstructOutcomes(i, r, c) ==
  IF design = "Indices" THEN Completed(ctorSized(inst, heap, i, r * c, r, c))
  ELSE Completed(ctorSizedRC(inst, heap, i, r * c, r, c))
\* the same for compile-time capacity
ConstructOutcomesStatic(i, r, c) ==
  IF design = "Indices" THEN ctorSizedStatic(inst, m_array, i, r, c)
  ELSE ctorSizedStaticRC(inst, m_array, i, r, c)

\* C17: both designs: construction from (size, rows, cols) with size ==
\* rows*cols, rows, cols >= 0 and a fixed extent passed as its constant gives
\* rows() == rows and cols() == cols. Runtime capacity: exactly one buffer of
\* size elements is requested and data() is non-null when size > 0. Fixed
\* capacity: data() is non-null and nothing is allocated.
C17_ConstructionSetsExtents ==
  \A i \in Inst :
    (~inst[i].live /\ ~doubleFree) =>
      IF SizeT = Dynamic
      THEN \A rc \in Shapes : \A o \in ConstructOutcomes(i, rc[1], rc[2]) :
             LET size == rc[1] * rc[2]
                 heapAfter == HeapAfter(o)
             IN /\ o.inst[i].live /\ ~o.bad
                /\ rows(o.inst[i]) = rc[1] /\ cols(o.inst[i]) = rc[2]
                /\ o.calls = <<CallNew(size)>>
                /\ size > 0 => /\ data(o.inst, i) # Null
                               /\ heap[data(o.inst, i)].st = "unused"
                /\ Allocated(heapAfter, data(o.inst, i)) = size
                /\ \A p \in Ptr \ {data(o.inst, i)} : heapAfter[p] = heap[p]
                /\ \A j \in Inst \ {i} : o.inst[j] = inst[j]
      ELSE \A rc \in StaticShapes : \A o \in ConstructOutcomesStatic(i, rc[1], rc[2]) :
             /\ o.inst[i].live
             /\ rows(o.inst[i]) = rc[1] /\ cols(o.inst[i]) = rc[2]
             /\ SizeT > 0 => data(o.inst, i) # Null /\ Len(o.arr[i]) = SizeT
             /\ \A j \in Inst \ {i} : o.inst[j] = inst[j] /\ o.arr[j] = m_array[j]

C17_Witness ==
  /\ last.op = "ctorSized" /\ last.calls = <<CallNew(MaxSize)>> /\ SizeT = Dynamic
  /\ \E i \in Inst : /\ inst[i].live /\ data(inst, i) # Null
                     /\ rows(inst[i]) = MaxSize /\ cols(inst[i]) = 1
                     /\ Allocated(heap, data(inst, i)) = MaxSize
                     /\ \A j \in Inst \ {i} : ~inst[j].live

\* C18: part_000: when the allocation inside a copy assignment fails and the
\* failure reaches the caller, the target does not hold a pointer to a buffer
\* that has been released (nor does any other object).
C18_NoStalePointerAfterFailure ==
  allocFailed => \A i \in Inst : inst[i].live => Valid(heap, inst[i])

C18_Witness ==
  /\ allocFailed /\ last.op = "assignCopy" /\ ~last.ok /\ ~last.same
  /\ \A i \in Inst : inst[i].live /\ inst[i].m_data # Null /\ heap[inst[i].m_data].st = "live"

\* C19: part_000: also when the allocation inside b = a fails, b's
\* rows()*cols() equals the number of elements allocated for the buffer b
\* holds, so that its destructor passes the true count.
C19_ConsistentAfterFailure ==
  allocFailed => \A i \in Inst :
    inst[i].live => Allocated(heap, inst[i].m_data) = IdxRows(inst[i]) * IdxCols(inst[i])

\* C20: DenseStorage.h, runtime capacity: copy construction allocates a fresh
\* buffer and move construction leaves the source with a null buffer, so that
\* no two live objects hold the same non-null buffer pointer.
C20_NoSharedBufferRC ==
  \A i, j \in Inst :
    (i # j /\ inst[i].live /\ inst[j].live /\ last.op \in {"ctorCopy", "ctorMove"})
      => (inst[i].m_data = Null \/ inst[i].m_data # inst[j].m_data)

\* C21: DenseStorage.h, runtime capacity: after any sequence of construction
\* from (size, rows, cols), resize, conservativeResize and swap, once every
\* object is destroyed no buffer is still allocated.
C21_DestructionReleasesRC ==
  (design = "RowCol" /\ AllDead) => \A p \in Ptr : heap[p].st # "live"

(* ------------------------- declared data members ----------------------- *)
\* The non-static data members each class template declares, by name, as a
\* function of the instantiation. A base class without members adds nothing
\* to the members of the class that inherits it.

IdxMembersAlways == {"m_rows", "m_cols"}
\* struct DenseStorageIndices<Rows, Cols> and its three specialisations
IdxMembers ==
  (IF RowsT = Dynamic THEN {"m_rows"} ELSE {}) \cup (IF ColsT = Dynamic THEN {"m_cols"} ELSE {})
\* struct DenseStorageRowIndex<Rows>, DenseStorageRowIndex<Dynamic>
RowIndexMembers == IF RowsT = Dynamic THEN {"m_rows"} ELSE {}
\* struct DenseStorageColIndex<Cols>, DenseStorageColIndex<Dynamic>
ColIndexMembers == IF ColsT = Dynamic THEN {"m_cols"} ELSE {}
\* the buffer member of DenseStorage<T, Size, ...>: plain_array<T, Size, ...>
\* m_data for Size > 0, none for Size == 0, T* m_data for Size == Dynamic
BufferMembers(Size) == IF Size = 0 THEN {} ELSE {"m_data"}
\* class DenseStorage<T, Size, Rows, Cols, Options>: its own member and those
\* of the holders it inherits
StorageMembers(Size) ==
  BufferMembers(Size) \cup
    (IF design = "Indices" THEN IdxMembers ELSE RowIndexMembers \cup ColIndexMembers)
\* the three capacity categories
SizeCategories == {0, FixedSize, Dynamic}

ArrayCap == 3
\* the logical lengths a caller may pass
Lengths == 0..ArrayCap

\* std::swap_ranges(x, x + n, y): elements [0, n) of x and y exchanged
swap_ranges(x, n, y) ==
  [x |-> [k \in 1..Len(x) |-> IF k <= n THEN y[k] ELSE x[k]],
   y |-> [k \in 1..Len(y) |-> IF k <= n THEN x[k] ELSE y[k]]]

\* smart_move(x + from, x + to, y + from): elements [from, to) of y become
\* those of x; a moved-from element of x is left with any value
smart_move(x, from, to, y) ==
  {[x |-> [k \in 1..Len(x) |-> IF from < k /\ k <= to THEN e[k] ELSE x[k]],
    y |-> [k \in 1..Len(y) |-> IF from < k /\ k <= to THEN x[k] ELSE y[k]]] :
      e \in Seqs(Len(x))}

\* a swap that exchanges the common prefix and leaves the remainder in place
plain_array_helper_swapPrefixOnly(a, a_size, b, b_size) ==
  LET s == swap_ranges(a, Min(a_size, b_size), b) IN {[a |-> s.x, b |-> s.y]}

\* plain_array_helper::swap(a, a_size, b, b_size): the (a, b) that can result
plain_array_helper_swap(a, a_size, b, b_size) ==
  IF a_size < b_size
  THEN LET s == swap_ranges(b, a_size, a)
       IN {[a |-> m.y, b |-> m.x] : m \in smart_move(s.x, a_size, b_size, s.y)}
  ELSE IF a_size > b_size
  THEN LET s == swap_ranges(a, b_size, b)
       IN {[a |-> m.x, b |-> m.y] : m \in smart_move(s.x, b_size, a_size, s.y)}
  ELSE LET s == swap_ranges(a, a_size, b) IN {[a |-> s.x, b |-> s.y]}

InitArrays ==
  /\ design \in {"Indices", "RowCol"}
  /\ RowsT = Dynamic /\ ColsT = Dynamic
  /\ SizeT = ArrayCap
  /\ m_array \in [Inst -> Seqs(ArrayCap)]
  /\ inst = [i \in Inst |-> Dead]
  /\ heap = [p \in Ptr |-> UnusedCell]
  /\ lastSet = [i \in Inst |-> [rows |-> 0, cols |-> 0]]
  /\ doubleFree = FALSE
  /\ allocFailed = FALSE
  /\ last = NoOp

\* plain_array_helper::swap(m_array[i], a_size, m_array[j], b_size) on two arrays
HelperSwap(i, j, a_size, b_size) ==
  /\ i # j
  /\ \E o \in plain_array_helper_swap(m_array[i], a_size, m_array[j], b_size) :
       m_array' = [m_array EXCEPT ![i] = o.a, ![j] = o.b]
  /\ last' = [op |-> "plain_array_swap", same |-> FALSE, ok |-> TRUE, calls |-> <<>>,
              a_size |-> a_size, b_size |-> b_size]
  /\ UNCHANGED <<design, RowsT, ColsT, SizeT, inst, heap, lastSet, doubleFree, allocFailed>>

NextArrays == \E i, j \in Inst, a_size, b_size \in Lengths : HelperSwap(i, j, a_size, b_size)

SpecArrays == InitArrays /\ [][NextArrays]_vars

\* C23: for any two arrays and any logical lengths a_n, b_n within the
\* capacity, after plain_array_helper::swap(a, a_n, b, b_n) elements [0, b_n)
\* of a are those b had in [0, b_n) and elements [0, a_n) of b are those a
\* had in [0, a_n).
C23_SwapUnequalLengths ==
  \A i, j \in Inst, a_n, b_n \in Lengths :
    i # j =>
      \A o \in plain_array_helper_swap(m_array[i], a_n, m_array[j], b_n) :
        /\ \A k \in 1..b_n : o.a[k] = m_array[j][k]
        /\ \A k \in 1..a_n : o.b[k] = m_array[i][k]
\* a swap with a shorter a has acted: a common prefix and a remainder, both
\* with contents that tell the two arrays apart
C23_Witness ==
  /\ last.op = "plain_array_swap"
  /\ 0 < last.a_size /\ last.a_size < last.b_size
  /\ m_array[1][1] # m_array[2][1]
  /\ m_array[1][ArrayCap] # m_array[2][ArrayCap]

(* --------------------- allocation failure inside resize ---------------- *)
\* resize of either design left by the exception of its allocation
ResizeFails(i, r, c) ==
  /\ (IsI \/ IsRC) /\ ~allocFailed /\ inst[i].live
  /\ \E o \in Failed(IF design = "Indices" THEN resize(inst, heap, i, r * c, r, c)
                      ELSE resizeRC(inst, heap, i, r * c, r, c)) : Commit("resize", FALSE, o)

\* the object is destroyed after the failure
DestroyAfterResizeFailure(i) == allocFailed /\ (Destroy(i) \/ DestroyRC(i))

\* the object is resized again after the failure
ResizeAfterFailure(i, r, c) == allocFailed /\ (Resize(i, r, c) \/ ResizeRC(i, r, c))

\* the shared operations of both designs; a resize may fail, after which the
\* objects are destroyed or resized again
NextResizeFail ==
  \/ ~allocFailed /\ NextShared
  \/ \E i \in Inst, rc \in Shapes : ResizeFails(i, rc[1], rc[2])
  \/ \E i \in Inst : DestroyAfterResizeFailure(i)
  \/ \E i \in Inst, rc \in Shapes : ResizeAfterFailure(i, rc[1], rc[2])

SpecResizeFail == Init /\ [][NextResizeFail]_vars

\* C24: after the allocation inside resize has failed, every object holds a
\* null pointer or an allocated buffer whose count is rows()*cols(), and no
\* later destruction or resize releases a buffer a second time.
C24_ValidAfterResizeFailure ==
  allocFailed =>
    /\ ~doubleFree
    /\ \A i \in Inst : inst[i].live =>
         /\ Valid(heap, inst[i])
         /\ Allocated(heap, inst[i].m_data) = Count(inst[i])

(* ------------------------ the two designs side by side ----------------- *)
\* the runtime-capacity storage with both extents fixed
InitFixedExtents ==
  /\ design \in {"Indices", "RowCol"}
  /\ RowsT = FixedExt /\ ColsT = FixedExt
  /\ SizeT = Dynamic
  /\ m_array = [i \in Inst |-> <<>>]
  /\ inst = [i \in Inst |-> Dead]
  /\ heap = [p \in Ptr |-> UnusedCell]
  /\ lastSet = [i \in Inst |-> [rows |-> 0, cols |-> 0]]
  /\ doubleFree = FALSE
  /\ allocFailed = FALSE
  /\ last = NoOp

\* the shared operations of both designs in each of the four <Rows, Cols>
\* combinations
InitEquiv == Init \/ InitFixedExtents
SpecEquiv == InitEquiv /\ [][NextShared]_vars

\* what a caller observes of an outcome of part_000: rows(), cols(), whether
\* data() is null, the calls made and whether the operation completed
ObservedIdx(o) ==
  [rows |-> [i \in Inst |-> IdxRows(o.inst[i])],
   cols |-> [i \in Inst |-> IdxCols(o.inst[i])],
   null |-> [i \in Inst |-> o.inst[i].m_data = Null],
   calls |-> o.calls, ok |-> o.ok, bad |-> o.bad]
\* the same of an outcome of DenseStorage.h
ObservedRC(o) ==
  [rows |-> [i \in Inst |-> getRows(o.inst[i])],
   cols |-> [i \in Inst |-> getCols(o.inst[i])],
   null |-> [i \in Inst |-> o.inst[i].m_data = Null],
   calls |-> o.calls, ok |-> o.ok, bad |-> o.bad]
\* the outcomes of one operation in the two designs, run from the same objects
\* against the same capability, cannot be told apart, and leave the same
\* objects and the same capability behind
SideBySide(outsIdx, outsRC) ==
  /\ {ObservedIdx(o) : o \in outsIdx} = {ObservedRC(o) : o \in outsRC}
  /\ outsIdx = outsRC

\* C25: from every state either design reaches by its shared operations, each
\* shared operation with each argument has in both designs the same outcomes:
\* equal rows() and cols(), data() null in one exactly when in the other, the
\* same calls to the capability with the same counts, and the same objects
\* and capability afterwards, so that the two designs stay in step.
C25_DesignsEquivalent ==
  /\ \A i \in Inst :
       /\ IdxRows(inst[i]) = getRows(inst[i])
       /\ IdxCols(inst[i]) = getCols(inst[i])
  /\ \A i \in Inst : ~inst[i].live =>
       /\ SideBySide(ctorDefault(inst, heap, i), ctorDefaultRC(inst, heap, i))
       /\ \A rc \in Shapes :
            SideBySide(ctorSized(inst, heap, i, rc[1] * rc[2], rc[1], rc[2]),
                       ctorSizedRC(inst, heap, i, rc[1] * rc[2], rc[1], rc[2]))
  /\ \A i \in Inst : inst[i].live =>
       /\ \A rc \in Shapes :
            /\ SideBySide(resize(inst, heap, i, rc[1] * rc[2], rc[1], rc[2]),
                          resizeRC(inst, heap, i, rc[1] * rc[2], rc[1], rc[2]))
            /\ SideBySide(conservativeResize(inst, heap, i, rc[1] * rc[2], rc[1], rc[2]),
                          conservativeResizeRC(inst, heap, i, rc[1] * rc[2], rc[1], rc[2]))
       /\ \A j \in Inst : inst[j].live =>
            SideBySide(swap(inst, heap, i, j), swapRC(inst, heap, i, j))
\* two objects of different extents, one with a buffer and one without, have
\* been swapped in the separate-holder design
C25_Witness ==
  /\ design = "RowCol"
  /\ last.op = "swap" /\ ~last.same
  /\ inst[1].live /\ inst[2].live
  /\ inst[1].m_data = Null /\ inst[2].m_data # Null
  /\ getRows(inst[1]) * getCols(inst[1]) # getRows(inst[2]) * getCols(inst[2])

====
